---- MODULE Spec2Model ----
(***************************************************************************)
(* A model of redirector.py: the registry of tmpnb hosts (the `stats`      *)
(* dict), the weighted selection of a redirect target (select_host), the   *)
(* polling coroutine (update_stats), the hosts API (HostsAPIHandler) and   *)
(* the handlers that read the registry (RerouteHandler, StatsHandler).     *)
(*                                                                         *)
(* Strings are sequences of one-character strings, so that urlparse, strip *)
(* and sorted are computed rather than assumed.  A dict is the sequence of *)
(* its items in insertion order, which is the order CPython iterates it.   *)
(***************************************************************************)
EXTENDS Integers, Sequences, FiniteSets, Bags, TLC

(***************************************************************************)
(* Bounds of the model.                                                    *)
(***************************************************************************)
\* update_stats passes that may be outstanding at the same time: callbacks
\* waiting on the IOLoop and coroutines suspended at a fetch
MaxPolls == 2

(***************************************************************************)
(* Host strings and request bodies.                                        *)
(***************************************************************************)
HttpA == <<"h", "t", "t", "p", ":", "/", "/", "a">>
HttpsB == <<"h", "t", "t", "p", "s", ":", "/", "/", "b">>
\* "Ftp://x": a scheme that is not http(s), in a case urlparse lowers
FtpX == <<"F", "t", "p", ":", "/", "/", "x">>
\* "x": no scheme
NoScheme == <<"x">>
DownKey == <<"d", "o", "w", "n">>

\* The hosts the model registers: "http://a" and "https://b".
Hosts == {HttpA, HttpsB}

\* Bodies of requests to /hosts: JSON objects with a "host".  A body that
\* json.loads(...)['host'] raises on has json |-> FALSE; _get_host answers
\* it like a host it refuses, and the requests of the model send none.
Bodies ==
  {[json |-> TRUE, host |-> h] : h \in Hosts \cup {FtpX, NoScheme}}

\* ord() of the characters that occur in host strings.
CodePoint ==
  ("\n" :> 10) @@ (" " :> 32) @@ ("/" :> 47) @@ (":" :> 58) @@ ("F" :> 70)
    @@ ("a" :> 97) @@ ("b" :> 98) @@ ("d" :> 100) @@ ("f" :> 102)
    @@ ("h" :> 104) @@ ("n" :> 110) @@ ("o" :> 111) @@ ("p" :> 112)
    @@ ("s" :> 115) @@ ("t" :> 116) @@ ("w" :> 119) @@ ("x" :> 120)

IsAlpha(c) == CodePoint[c] \in (65 .. 90) \cup (97 .. 122)

\* urllib's scheme_chars: letters, digits and "+-."
IsSchemeChar(c) ==
  IsAlpha(c) \/ CodePoint[c] \in (48 .. 57) \cup {43, 45, 46}

\* str.lower on one character
Lower(c) ==
  IF CodePoint[c] \in 65 .. 90
    THEN CHOOSE d \in DOMAIN CodePoint : CodePoint[d] = CodePoint[c] + 32
    ELSE c

\* urlparse(host).scheme: the text before the first ":", lowercased, when it
\* starts with a letter and holds scheme characters only; "" otherwise.
urlparse_scheme(url) ==
  LET colons == {i \in 1 .. Len(url) : url[i] = ":"}
      i == IF colons = {} THEN 0
           ELSE CHOOSE k \in colons : \A j \in colons : k <= j
  IN IF i > 1 /\ IsAlpha(url[1]) /\ \A j \in 1 .. i - 1 : IsSchemeChar(url[j])
       THEN [j \in 1 .. i - 1 |-> Lower(url[j])]
       ELSE <<>>

\* a < b for two strings, as Python compares them
StrLess(a, b) ==
  \E i \in 1 .. Len(a) + 1 :
    /\ i <= Len(b)
    /\ \A j \in 1 .. i - 1 : a[j] = b[j]
    /\ i = Len(a) + 1 \/ CodePoint[a[i]] < CodePoint[b[i]]

IsSpace(c) == CodePoint[c] \in {10, 32}

\* str.strip
RECURSIVE strip(_)
strip(s) ==
  IF s = <<>> THEN s
  ELSE IF IsSpace(Head(s)) THEN strip(Tail(s))
  ELSE IF IsSpace(s[Len(s)]) THEN strip(SubSeq(s, 1, Len(s) - 1))
  ELSE s

(***************************************************************************)
(* Python dicts: a sequence of items [key, value] in insertion order.      *)
(***************************************************************************)
dict_keys(d) == [i \in 1 .. Len(d) |-> d[i].key]

dict_has(d, k) == \E i \in 1 .. Len(d) : d[i].key = k

dict_index(d, k) == CHOOSE i \in 1 .. Len(d) : d[i].key = k

dict_item(d, k) == d[dict_index(d, k)].value

\* d[k] = v: replaces the value in place, or appends a new item
dict_setitem(d, k, v) ==
  IF dict_has(d, k)
    THEN [d EXCEPT ![dict_index(d, k)] = [key |-> k, value |-> v]]
    ELSE Append(d, [key |-> k, value |-> v])

\* d.setdefault(k, v)
dict_setdefault(d, k, v) ==
  IF dict_has(d, k) THEN d ELSE Append(d, [key |-> k, value |-> v])

\* d.pop(k), for a key that is present
dict_pop(d, k) == SelectSeq(d, LAMBDA item : item.key # k)

RECURSIVE SumField(_, _)
\* sum(value[field] for value in d.values())
SumField(d, field) ==
  IF d = <<>> THEN 0 ELSE Head(d).value[field] + SumField(Tail(d), field)

\* some value of d has no such field: value[field] raises KeyError
LacksField(d, field) == \E i \in 1 .. Len(d) : field \notin DOMAIN d[i].value

(***************************************************************************)
(* Records of the registry and replies of the hosts.                       *)
(***************************************************************************)
down_stats == [available |-> 0, capacity |-> 0, down |-> TRUE]

\* JSON bodies a host's /stats may return
Payloads ==
  { [available |-> 3, capacity |-> 10, down |-> FALSE],
    [available |-> 0, capacity |-> 5, down |-> FALSE],
    [down |-> TRUE] }

\* What `yield f` followed by json.loads gives: the parsed body, or an
\* exception (the fetch failed or timed out, the body is not JSON), all of
\* them caught by the one `except Exception`.
Replies == Payloads \cup {[exception |-> "Exception"]}

\* record.get("down") is true
IsDown(rec) == "down" \in DOMAIN rec /\ rec.down

(***************************************************************************)
(* select_host                                                             *)
(***************************************************************************)
AllDownMsg == "All redirect targets are down"
NoneAvailableMsg == "No redirect targets are available"

\* server_stats.get("down"), as a truth value: the registry's own "down"
\* key, not a field of a host's record.
registry_get_down(server_stats) ==
  /\ dict_has(server_stats, DownKey)
  /\ DOMAIN dict_item(server_stats, DownKey) # {}

\* up = {host: stats for host, stats in server_stats.items()
\*       if not server_stats.get("down")}
select_up(server_stats) ==
  SelectSeq(server_stats, LAMBDA item : ~registry_get_down(server_stats))

NoError == [kind |-> "none"]

\* The exception select_host raises before it draws, if any.
select_error(server_stats) ==
  LET up == select_up(server_stats)
  IN IF up = <<>>
       THEN [kind |-> "HTTPError", status |-> 503,
             msg |-> IF server_stats = <<>> THEN AllDownMsg
                     ELSE NoneAvailableMsg]
     ELSE IF LacksField(up, "available")
       THEN [kind |-> "KeyError", field |-> "available"]
     ELSE IF SumField(up, "available") = 0 /\ LacksField(up, "capacity")
       THEN [kind |-> "KeyError", field |-> "capacity"]
     ELSE NoError

\* total, the upper end of random.randint(0, total)
select_total(server_stats) ==
  LET up == select_up(server_stats)
      total == SumField(up, "available")
  IN IF total = 0 THEN SumField(up, "capacity") ELSE total

\* The values random.randint can return in a call of select_host.
Draws(server_stats) ==
  IF select_error(server_stats) # NoError THEN {0}
  ELSE 0 .. select_total(server_stats)

\* The loop of select_host: the first host whose running sum of `available`
\* reaches choice; the loop variable keeps the last host when none does.
select_loop(up, choice) ==
  LET hit == {i \in 1 .. Len(up) :
                SumField(SubSeq(up, 1, i), "available") >= choice}
  IN IF hit = {} THEN up[Len(up)].key
     ELSE up[CHOOSE i \in hit : \A j \in hit : i <= j].key

\* select_host(server_stats) with random.randint returning choice
select_host(server_stats, choice) ==
  IF select_error(server_stats) # NoError THEN select_error(server_stats)
  ELSE [kind |-> "host",
        host |-> select_loop(select_up(server_stats), choice)]

(***************************************************************************)
(* The state.                                                              *)
(***************************************************************************)
VARIABLES
  stats,      \* the stats dict, keyed by host
  hostsFile,  \* hosts.txt: whether it exists, and its lines
  callbacks,  \* update_stats callbacks waiting on the IOLoop
  polls,      \* the suspended update_stats coroutines (a bag)
  phase,      \* "boot" before main() has run; "starting" while the
              \* callback main() scheduled is the IOLoop's first work;
              \* "running" after that
  resp        \* what this step let the outside see: the response of the
              \* request it handled, or the hosts update_stats wrote

vars == <<stats, hostsFile, callbacks, polls, phase, resp>>

NoResp == [op |-> "none"]

\* _save_hosts writing the keys in the order of the dict
save_hosts_unsorted(d) ==
  [exists |-> TRUE,
   lines |-> [i \in 1 .. Len(d) |-> Append(d[i].key, "\n")]]

\* _save_hosts: one line per key, sorted
save_hosts(d) ==
  LET keys == SortSeq(dict_keys(d), StrLess)
  IN [exists |-> TRUE,
      lines |-> [i \in 1 .. Len(keys) |-> Append(keys[i], "\n")]]

\* a dict with these keys, each down
DownDict(keys) ==
  [i \in 1 .. Len(keys) |-> [key |-> keys[i], value |-> down_stats]]

\* The hosts.txt a start can find: none, or one an earlier run saved.
HostsFiles ==
  {[exists |-> FALSE, lines |-> <<>>]}
    \cup {save_hosts(DownDict(ks)) :
            ks \in {<<>>, <<HttpA>>, <<HttpsB>>, <<HttpA, HttpsB>>}}

Init ==
  /\ stats = <<>>
  /\ hostsFile \in HostsFiles
  /\ callbacks = 0
  /\ polls = EmptyBag
  /\ phase = "boot"
  /\ resp = NoResp

RECURSIVE load_hosts(_, _)
\* for line in f: host = line.strip(); if host: stats[host] = down_stats()
load_hosts(d, lines) ==
  IF lines = <<>> THEN d
  ELSE LET host == strip(Head(lines))
       IN load_hosts(IF host # <<>> THEN dict_setitem(d, host, down_stats)
                     ELSE d,
                     Tail(lines))

\* main() without the add_callback of its last lines
Main_unscheduled ==
  /\ phase = "boot"
  /\ stats' = IF hostsFile.exists THEN load_hosts(stats, hostsFile.lines)
              ELSE stats
  /\ callbacks' = 0
  /\ phase' = "running"
  /\ resp' = NoResp
  /\ UNCHANGED <<hostsFile, polls>>

\* main(), up to the start of the IOLoop.  A callback added before the
\* IOLoop starts runs in its first iteration, ahead of every request and of
\* the PeriodicCallback, whose first tick is stats_period later.
Main ==
  /\ phase = "boot"
  /\ stats' = IF hostsFile.exists THEN load_hosts(stats, hostsFile.lines)
              ELSE stats
  /\ callbacks' = IF stats' # <<>> THEN 1 ELSE 0
  /\ phase' = IF stats' # <<>> THEN "starting" ELSE "running"
  /\ resp' = NoResp
  /\ UNCHANGED <<hostsFile, polls>>

(***************************************************************************)
(* update_stats                                                            *)
(***************************************************************************)
\* update_stats fetching only the key added last
start_update_stats_last(d, running) ==
  IF d = <<>> THEN running
  ELSE running (+) SetToBag({[futures |-> <<d[Len(d)].key>>, done |-> {}]})

\* The first loop of update_stats: one fetch per key of stats.  A coroutine
\* is its futures still to be awaited, in order, and those already resolved.
start_update_stats(d, running) ==
  IF d = <<>> THEN running
  ELSE running (+) SetToBag({[futures |-> dict_keys(d), done |-> {}]})

\* write_back without the membership test
write_back_unchecked(d, host, value) == dict_setitem(d, host, value)

\* if host in stats: stats[host] = value
write_back(d, host, value) ==
  IF dict_has(d, host) THEN dict_setitem(d, host, value) ELSE d

\* the second loop updating the record with the payload instead of
\* replacing it
handle_reply_merged(d, host, reply) ==
  IF "exception" \in DOMAIN reply
    THEN write_back(d, host, down_stats)
  ELSE IF dict_has(d, host)
    THEN write_back(d, host, reply @@ dict_item(d, host))
  ELSE d

\* The body of the second loop for one host, given what `yield f` and
\* json.loads produced.
handle_reply(d, host, reply) ==
  IF "exception" \in DOMAIN reply
    THEN write_back(d, host, down_stats)
    ELSE write_back(d, host, reply)

RECURSIVE await_loop(_, _, _, _, _)
\* The second loop, run until it reaches a future that is not resolved:
\* the registry it leaves, the futures it still awaits and the hosts whose
\* record it assigned.
await_loop(d, futures, done, replies, wrote) ==
  IF futures = <<>> \/ Head(futures) \notin done
    THEN [stats |-> d, futures |-> futures, wrote |-> wrote]
    ELSE await_loop(handle_reply(d, Head(futures), replies[Head(futures)]),
                    Tail(futures), done, replies,
                    IF dict_has(d, Head(futures))
                      THEN wrote \cup {Head(futures)} ELSE wrote)

\* The update_stats passes scheduled or running
Outstanding == callbacks + BagCardinality(polls)

\* The IOLoop runs a callback scheduled with add_callback.
RunCallback ==
  /\ phase \in {"starting", "running"}
  /\ callbacks > 0
  /\ callbacks' = callbacks - 1
  /\ polls' = start_update_stats(stats, polls)
  /\ phase' = "running"
  /\ resp' = NoResp
  /\ UNCHANGED <<stats, hostsFile>>

\* The PeriodicCallback fires.
PollerTick ==
  /\ phase = "running"
  /\ Outstanding < MaxPolls
  /\ polls' = start_update_stats(stats, polls)
  /\ resp' = NoResp
  /\ UNCHANGED <<stats, hostsFile, callbacks, phase>>

\* The fetch of host in coroutine p resolves: a reply, an error or a timeout.
FetchDone(p, host) ==
  /\ p \in BagToSet(polls)
  /\ \E i \in 1 .. Len(p.futures) : p.futures[i] = host
  /\ host \notin p.done
  /\ polls' = (polls (-) SetToBag({p}))
                (+) SetToBag({[p EXCEPT !.done = @ \cup {host}]})
  /\ resp' = NoResp
  /\ UNCHANGED <<stats, hostsFile, callbacks, phase>>

\* The futures the second loop passes before it suspends again: the longest
\* prefix of futures that are resolved.
RECURSIVE resolved_prefix(_, _)
resolved_prefix(futures, done) ==
  IF futures = <<>> \/ Head(futures) \notin done THEN {}
  ELSE {Head(futures)} \cup resolved_prefix(Tail(futures), done)

\* Coroutine p resumes at `yield f`, its future resolved, and runs until it
\* awaits an unresolved future or returns.  What each fetch produced is
\* drawn here, where the coroutine first reads it.
Resume(p) ==
  /\ p \in BagToSet(polls)
  /\ Head(p.futures) \in p.done
  /\ \E replies \in [resolved_prefix(p.futures, p.done) -> Replies] :
       LET r == await_loop(stats, p.futures, p.done, replies, {})
       IN /\ stats' = r.stats
          /\ resp' = [op |-> "update_stats", wrote |-> r.wrote]
          /\ polls' =
               IF r.futures = <<>> THEN polls (-) SetToBag({p})
               ELSE (polls (-) SetToBag({p}))
                      (+) SetToBag({[futures |-> r.futures,
                                     done |-> p.done \cap
                                       {r.futures[i] : i \in 1 .. Len(r.futures)}]})
  /\ UNCHANGED <<hostsFile, callbacks, phase>>

(***************************************************************************)
(* HostsAPIHandler                                                         *)
(***************************************************************************)
InvalidHostMsg == "Invalid host, must include http or https"
BadBodyMsg == "ValueError or KeyError"

\* _get_host without the scheme test
get_host_unchecked(body) ==
  IF ~body.json
    THEN [kind |-> "HTTPError", status |-> 400, log |-> BadBodyMsg]
  ELSE [kind |-> "host", host |-> body.host]

\* _get_host: the host of the body, or the HTTPError(400) it raises, with
\* the exception it logged as "Bad host"
get_host(body) ==
  IF ~body.json
    THEN [kind |-> "HTTPError", status |-> 400, log |-> BadBodyMsg]
  ELSE IF urlparse_scheme(body.host) \in
            {<<"h", "t", "t", "p">>, <<"h", "t", "t", "p", "s">>}
    THEN [kind |-> "host", host |-> body.host]
  ELSE [kind |-> "HTTPError", status |-> 400, log |-> InvalidHostMsg]

\* post storing the down record whether or not the host is registered
post_stats_reset(d, host) == dict_setitem(d, host, down_stats)

\* post registering a new host as up
post_stats_up(d, host) ==
  dict_setdefault(d, host, [available |-> 0, capacity |-> 0, down |-> FALSE])

\* self.stats.setdefault(host, {'available': 0, 'capacity': 0, 'down': True})
post_stats(d, host) == dict_setdefault(d, host, down_stats)

\* HostsAPIHandler.post
HostsPost(body) ==
  /\ phase = "running"
  /\ LET got == get_host(body)
     IN IF got.kind = "host"
          THEN /\ Outstanding < MaxPolls
               /\ stats' = post_stats(stats, got.host)
               /\ callbacks' = callbacks + 1
               /\ hostsFile' = save_hosts(stats')
               /\ resp' = [op |-> "POST /hosts", status |-> 200]
          ELSE /\ resp' = [op |-> "POST /hosts", status |-> got.status,
                           log |-> got.log]
               /\ UNCHANGED <<stats, callbacks, hostsFile>>
  /\ UNCHANGED <<polls, phase>>

\* pop with a default: no KeyError for a missing key
delete_stats_default(d, host) == [kind |-> "dict", stats |-> dict_pop(d, host)]

\* self.stats.pop(host): the dict without the key, or KeyError
delete_stats(d, host) ==
  IF dict_has(d, host) THEN [kind |-> "dict", stats |-> dict_pop(d, host)]
  ELSE [kind |-> "KeyError"]

\* HostsAPIHandler.delete; an uncaught KeyError is answered with a 500
HostsDelete(body) ==
  /\ phase = "running"
  /\ LET got == get_host(body)
     IN IF got.kind = "host"
          THEN LET popped == delete_stats(stats, got.host)
               IN IF popped.kind = "dict"
                    THEN /\ stats' = popped.stats
                         /\ hostsFile' = save_hosts(stats')
                         /\ resp' = [op |-> "DELETE /hosts", status |-> 200]
                    ELSE /\ resp' = [op |-> "DELETE /hosts", status |-> 500,
                                     error |-> popped.kind]
                         /\ UNCHANGED <<stats, hostsFile>>
          ELSE /\ resp' = [op |-> "DELETE /hosts", status |-> got.status,
                           log |-> got.log]
               /\ UNCHANGED <<stats, hostsFile>>
  /\ UNCHANGED <<callbacks, polls, phase>>

(***************************************************************************)
(* The handlers of the redirect port.                                      *)
(***************************************************************************)
\* RerouteHandler.get: a redirect to the selected host, the error page of
\* the HTTPError select_host raised, or a 500 for any other exception
RerouteGet(choice) ==
  /\ phase = "running"
  /\ LET selected == select_host(stats, choice)
     IN resp' =
          IF selected.kind = "host"
            THEN [op |-> "GET /", status |-> 302, host |-> selected.host]
          ELSE IF selected.kind = "HTTPError"
            THEN [op |-> "GET /", status |-> selected.status,
                  msg |-> selected.msg]
          ELSE [op |-> "GET /", status |-> 500, error |-> selected.kind]
  /\ UNCHANGED <<stats, hostsFile, callbacks, polls, phase>>

\* the response dict with 'capacity' summed over the wrong field
stats_response_miscounted(d) ==
  [op |-> "GET /stats", status |-> 200,
   available |-> SumField(d, "available"),
   capacity |-> SumField(d, "available"),
   hosts |-> d]

\* The response dict of StatsHandler.get, serialised by self.write before
\* the handler returns
stats_response(d) ==
  [op |-> "GET /stats", status |-> 200,
   available |-> SumField(d, "available"),
   capacity |-> SumField(d, "capacity"),
   hosts |-> d]

\* StatsHandler.get; a record without a summed field raises KeyError
StatsGet ==
  /\ phase = "running"
  /\ resp' = IF LacksField(stats, "available")
                  \/ LacksField(stats, "capacity")
               THEN [op |-> "GET /stats", status |-> 500,
                     error |-> "KeyError"]
               ELSE stats_response(stats)
  /\ UNCHANGED <<stats, hostsFile, callbacks, polls, phase>>

Next ==
  \/ Main
  \/ RunCallback
  \/ PollerTick
  \/ \E p \in BagToSet(polls) : \E host \in Hosts : FetchDone(p, host)
  \/ \E p \in BagToSet(polls) : Resume(p)
  \/ \E body \in Bodies : HostsPost(body)
  \/ \E body \in Bodies : HostsDelete(body)
  \/ \E choice \in Draws(stats) : RerouteGet(choice)
  \/ StatsGet

Spec == Init /\ [][Next]_vars

\* Every state a coroutine of update_stats can be suspended in
Coroutines ==
  {p \in [futures : {<<HttpA>>, <<HttpsB>>, <<HttpA, HttpsB>>,
                     <<HttpsB, HttpA>>},
          done : SUBSET Hosts] :
     p.done \subseteq {p.futures[i] : i \in 1 .. Len(p.futures)}}

\* The IOLoop runs every callback it was given and resumes every coroutine
\* whose future is resolved; every fetch ends, with a reply, an error or
\* the timeout of the HTTP client.
FairSpec ==
  /\ Spec
  /\ WF_vars(RunCallback)
  /\ \A p \in {q \in Coroutines : Head(q.futures) \in q.done} :
       WF_vars(Resume(p))
  /\ \A p \in Coroutines :
       \A host \in {p.futures[i] : i \in 1 .. Len(p.futures)} \ p.done :
         WF_vars(FetchDone(p, host))

(***************************************************************************)
(* Properties of select_host, read off the response of RerouteHandler.get: *)
(* the handler leaves the registry as select_host saw it.                  *)
(***************************************************************************)
Rerouted == resp.op = "GET /"

Redirected == Rerouted /\ resp.status = 302

Records == {stats[i].value : i \in 1 .. Len(stats)}

LiveRecords == {rec \in Records : ~IsDown(rec)}

\* C1: when some registered host is not down, select_host never returns a
\* host whose record is marked down.
C1_NeverReturnsDownHost ==
  (Redirected /\ LiveRecords # {}) => ~IsDown(dict_item(stats, resp.host))

\* C2: when the registry is not empty and every record is down, select_host
\* fails with the all-targets-down error and returns no host.
C2_AllDownFails ==
  (Rerouted /\ stats # <<>> /\ LiveRecords = {})
    => (resp.status = 503 /\ resp.msg = AllDownMsg)

\* C3: on an empty registry select_host fails with a 503 whose message is
\* the no-targets one, not the message of the all-targets-down failure.
C3_EmptyRegistryFailsDistinctly ==
  (Rerouted /\ stats = <<>>) => (resp.status = 503 /\ resp.msg # AllDownMsg)

\* Every live record reports available = 0 and capacity > 0.
OnlyCapacityLeft ==
  /\ LiveRecords # {}
  /\ \A rec \in LiveRecords :
       /\ {"available", "capacity"} \subseteq DOMAIN rec
       /\ rec.available = 0
       /\ rec.capacity > 0

\* C4: when some host is live and every live host has available = 0 and
\* capacity > 0, select_host returns a host and raises no error.
C4_CapacityFallbackReturns == (Rerouted /\ OnlyCapacityLeft) => resp.status = 302

\* C5: when some live host has available > 0, no live host with
\* available = 0 is returned; with records 3/10 and 0/5 the host with 3
\* available is returned for every draw and order.
C5_ZeroAvailableNotReturned ==
  (Redirected /\ \E rec \in LiveRecords :
                   "available" \in DOMAIN rec /\ rec.available > 0)
    => LET rec == dict_item(stats, resp.host)
       IN ~("available" \in DOMAIN rec /\ ~IsDown(rec) /\ rec.available = 0)

(***************************************************************************)
(* Properties of update_stats.                                             *)
(***************************************************************************)
\* The step is the handling of a request to /hosts.
HostsStep(op) == resp'.op = op

\* C6: only main() and the requests to /hosts change the keys of the
\* registry, so no write-back of update_stats does; and a key enters the
\* registry only by main() or by a POST of that host.  So a host removed
\* while its poll is in flight stays absent when the poll settles.
C6_WriteBackNeverInserts ==
  [][/\ dict_keys(stats') # dict_keys(stats)
          => (phase = "boot" \/ HostsStep("POST /hosts")
                \/ HostsStep("DELETE /hosts"))
     /\ \A h \in Hosts :
          (~dict_has(stats, h) /\ dict_has(stats', h))
            => (Main \/ HostsPost([json |-> TRUE, host |-> h]))]_vars

\* Two overlapping update_stats passes hold a fetch for a host that has been
\* removed meanwhile, and the reply to one of them has arrived.
C6_Witness ==
  \E h \in Hosts :
    /\ ~dict_has(stats, h)
    /\ BagCardinality(polls) >= 2
    /\ \A p \in BagToSet(polls) : \E i \in 1 .. Len(p.futures) : p.futures[i] = h
    /\ \E p \in BagToSet(polls) : h \in p.done

\* C7: in a poll pass, a reply that has arrived is never kept from its
\* write-back by the pending request of another host.
C7_NoReplyWaitsBehindPending ==
  \A p \in BagToSet(polls) :
    \A i \in 1 .. Len(p.futures) :
      p.futures[i] \in p.done => \A j \in 1 .. i - 1 : p.futures[j] \in p.done

(***************************************************************************)
(* Properties of HostsAPIHandler.                                          *)
(***************************************************************************)
Occurrences(d, h) == Cardinality({i \in 1 .. Len(d) : d[i].key = h})

\* C8: after a successful add of h the registry holds exactly one record for
\* h, and an add of a host already registered leaves the registry, and so
\* the record a poll wrote for h, unchanged.
C8_AddIdempotent ==
  [][\A h \in Hosts :
       (HostsStep("POST /hosts") /\ HostsPost([json |-> TRUE, host |-> h]))
         => /\ Occurrences(stats', h) = 1
            /\ dict_has(stats, h) => stats' = stats]_vars

\* The only registered host has a record written by a successful poll, and
\* the request just answered is a successful add, which was of that host.
C8_Witness ==
  /\ resp = [op |-> "POST /hosts", status |-> 200]
  /\ Len(stats) = 1
  /\ ~IsDown(stats[1].value)

KeySet(d) == {d[i].key : i \in 1 .. Len(d)}

\* C9: removing a host that is not registered fails with KeyError, the
\* dict's key-not-found error, and leaves registry and hosts file unchanged;
\* removing a registered host deletes its record and no other.
C9_RemoveAbsentFails ==
  [][\A h \in Hosts :
       (HostsStep("DELETE /hosts")
          /\ HostsDelete([json |-> TRUE, host |-> h]))
         => IF dict_has(stats, h)
              THEN /\ KeySet(stats') = KeySet(stats) \ {h}
                   /\ \A k \in KeySet(stats') :
                        /\ Occurrences(stats', k) = 1
                        /\ dict_item(stats', k) = dict_item(stats, k)
              ELSE /\ resp'.status = 500
                   /\ resp'.error = "KeyError"
                   /\ stats' = stats
                   /\ hostsFile' = hostsFile]_vars

\* A remove has just failed with KeyError while another host is registered.
C9_Witness ==
  /\ resp = [op |-> "DELETE /hosts", status |-> 500, error |-> "KeyError"]
  /\ stats # <<>>

\* C10: an add whose host has a scheme other than http and https, or none,
\* fails with the invalid-host error, changes neither the registry nor the
\* hosts file and schedules no poll.
C10_InvalidSchemeRejected ==
  [][\A h \in {FtpX, NoScheme} :
       (HostsStep("POST /hosts") /\ HostsPost([json |-> TRUE, host |-> h]))
         => /\ resp'.status = 400
            /\ resp'.log = InvalidHostMsg
            /\ UNCHANGED <<stats, hostsFile, callbacks, polls>>]_vars

\* An add has just been refused as an invalid host, with hosts registered.
C10_Witness ==
  /\ resp = [op |-> "POST /hosts", status |-> 400, log |-> InvalidHostMsg]
  /\ stats # <<>>

(***************************************************************************)
(* The persisted host list and the stats report.                           *)
(***************************************************************************)
\* the hosts hosts.txt lists, a missing file listing none
PersistedHosts ==
  [i \in 1 .. Len(hostsFile.lines) |->
     SubSeq(hostsFile.lines[i], 1, Len(hostsFile.lines[i]) - 1)]

\* C11: once the process serves requests, whatever adds and removes have
\* finished, with or without error, and whatever polls have written back,
\* hosts.txt lists exactly the keys of the registry: one line per host,
\* each ended by a newline, in strictly ascending order.
C11_PersistedListIsRegistryKeys ==
  phase = "running" =>
    /\ (~hostsFile.exists => stats = <<>>)
    /\ \A i \in 1 .. Len(hostsFile.lines) :
         hostsFile.lines[i] = Append(PersistedHosts[i], "\n")
    /\ {PersistedHosts[i] : i \in 1 .. Len(PersistedHosts)} = KeySet(stats)
    /\ Len(PersistedHosts) = Len(stats)
    /\ \A i \in 1 .. Len(PersistedHosts) - 1 :
         StrLess(PersistedHosts[i], PersistedHosts[i + 1])

\* a remove has just been refused with an error, a poll has written a live
\* record, and the registry, filled in descending order, has both hosts
C11_Witness ==
  /\ resp = [op |-> "DELETE /hosts", status |-> 400, log |-> InvalidHostMsg]
  /\ dict_keys(stats) = <<HttpsB, HttpA>>
  /\ LiveRecords # {}

\* the sum of a field over the records a report lists
RECURSIVE ReportedSum(_, _)
ReportedSum(hosts, field) ==
  IF hosts = <<>> THEN 0
  ELSE hosts[Len(hosts)].value[field]
         + ReportedSum(SubSeq(hosts, 1, Len(hosts) - 1), field)

\* C12: a stats report shows one state of the registry: the records it
\* lists are the registry's at the moment of the report, and its aggregate
\* available and capacity are the sums over exactly those records.
C12_ReportIsOneState ==
  (resp.op = "GET /stats" /\ resp.status = 200) =>
    /\ resp.hosts = stats
    /\ resp.available = ReportedSum(resp.hosts, "available")
    /\ resp.capacity = ReportedSum(resp.hosts, "capacity")

\* a report over two hosts with different records, polls still in flight
C12_Witness ==
  /\ resp.op = "GET /stats" /\ resp.status = 200
  /\ Len(resp.hosts) = 2
  /\ resp.available = 3 /\ resp.capacity = 15
  /\ polls # EmptyBag

(***************************************************************************)
(* The records update_stats stores and the weights select_host uses.       *)
(***************************************************************************)
\* C13: every key of the registry maps to a record with a numeric
\* available and a numeric capacity, whatever body a polled host returned.
C13_RecordsHaveNumericFields ==
  \A i \in 1 .. Len(stats) :
    /\ {"available", "capacity"} \subseteq DOMAIN stats[i].value
    /\ stats[i].value.available \in Nat
    /\ stats[i].value.capacity \in Nat

\* the weight of the claim: available while some is left, else capacity
ChosenWeight(d) ==
  IF ReportedSum(d, "available") > 0 THEN "available" ELSE "capacity"

\* the first host, in the order of the registry, whose cumulative sum of
\* the weight reaches the draw
FirstReaching(d, field, draw) ==
  LET reached == {i \in 1 .. Len(d) :
                    ReportedSum(SubSeq(d, 1, i), field) >= draw}
  IN d[CHOOSE i \in reached : \A j \in reached : i <= j].key

\* C14: over a registry of live hosts, for every draw between 0 and the
\* total of the chosen weight, select_host returns the first host whose
\* cumulative sum of that weight is at least the draw.
C14_CumulativeWeightSelection ==
  (/\ stats # <<>>
   /\ \A rec \in Records :
        ~IsDown(rec) /\ {"available", "capacity"} \subseteq DOMAIN rec) =>
    \A draw \in 0 .. ReportedSum(stats, ChosenWeight(stats)) :
      /\ select_host(stats, draw).kind = "host"
      /\ select_host(stats, draw).host =
           FirstReaching(stats, ChosenWeight(stats), draw)

(***************************************************************************)
(* Write-backs, read off the steps of update_stats: resp' names the hosts  *)
(* the step assigned, and the coroutine that took the step is the one of   *)
(* which polls' holds one copy less.                                       *)
(***************************************************************************)
WroteBack == resp'.op = "update_stats"

Resumed(p) == CopiesIn(p, polls') < CopiesIn(p, polls)

Before(seq, x, y) ==
  \E i \in 1 .. Len(seq) : \E j \in i + 1 .. Len(seq) :
    seq[i] = x /\ seq[j] = y

\* Pass p still awaits host, which it fetched ahead of another host that
\* now precedes it in the registry: host was removed and added again at
\* the end of the dict after the pass had sent its requests.
RemovedInFlight(p, host) ==
  \E other \in Hosts :
    Before(p.futures, host, other) /\ Before(dict_keys(stats), other, host)

\* C15 as claimed: the result of a poll that was in flight when its host
\* was removed is never written to the registry, also when the host has
\* been added again before the result is read.
C15_StaleResultNeverWritten ==
  [][WroteBack =>
       \A p \in BagToSet(polls) : \A host \in Hosts :
         (Resumed(p) /\ RemovedInFlight(p, host)) => host \notin resp'.wrote]_vars

\* C15: the result of a poll whose host was removed while it was in flight
\* is discarded as long as the host is absent when the result is read: the
\* host stays absent, and a step that read results of absent hosts only
\* leaves the registry as it was.  When the host has been added again
\* before the result is read, the result is written to its new record.
C15_StaleResultDiscardedWhileAbsent ==
  [][WroteBack =>
       \A p \in BagToSet(polls) :
         Resumed(p) =>
           LET read == resolved_prefix(p.futures, p.done)
           IN /\ \A host \in read :
                   ~dict_has(stats, host) => ~dict_has(stats', host)
              /\ (read \cap KeySet(stats) = {}) => stats' = stats
              /\ \A host \in read :
                   RemovedInFlight(p, host) => host \in resp'.wrote]_vars

\* update_stats has just read the result of a host removed in flight and
\* written nothing, the other host still being registered
C15_Witness ==
  /\ resp = [op |-> "update_stats", wrote |-> {}]
  /\ Len(stats) = 1

\* the record of a host that is registered but has no successful poll yet
DownZero == [available |-> 0, capacity |-> 0, down |-> TRUE]

C18_DownRecordsAreZero ==
  \A rec \in Records :
    IsDown(rec) =>
      /\ {"available", "capacity"} \subseteq DOMAIN rec
      /\ rec.available = 0
      /\ rec.capacity = 0

(***************************************************************************)
(* The start of the process.                                               *)
(***************************************************************************)
\* C20: main() leaves every host of hosts.txt, and no other, registered
\* with the record {available 0, capacity 0, down true}.  When that
\* registry is not empty, the first thing that happens afterwards, ahead
\* of any tick of the timer and of any request, is the start of one pass
\* of update_stats over all its hosts; when it is empty, main() schedules
\* no pass and none is running.
C20_StartupLoadsAndPolls ==
  [][/\ phase = "boot" =>
          /\ {PersistedHosts[i] : i \in 1 .. Len(PersistedHosts)}
               = KeySet(stats')
          /\ \A i \in 1 .. Len(stats') : stats'[i].value = DownZero
          /\ callbacks' = (IF stats' = <<>> THEN 0 ELSE 1)
          /\ polls' = EmptyBag
          /\ (stats' # <<>>) = (phase' = "starting")
     /\ phase = "starting" =>
          /\ callbacks' = 0
          /\ polls' = SetToBag({[futures |-> dict_keys(stats), done |-> {}]})
          /\ stats' = stats]_vars

\* a pass is running over the two hosts main() read from hosts.txt, both
\* still with the record main() gave them
C20_Witness ==
  /\ phase = "running"
  /\ resp = NoResp
  /\ callbacks = 0
  /\ Len(hostsFile.lines) = 2
  /\ polls = SetToBag({[futures |-> <<HttpA, HttpsB>>, done |-> {}]})
  /\ \A i \in 1 .. Len(stats) : stats[i].value = DownZero

(***************************************************************************)
(* The pass an add schedules.                                              *)
(***************************************************************************)
\* C19: a successful add schedules one pass of update_stats and starts no
\* fetch itself; a scheduled pass, when it starts, fetches every host
\* registered at that moment; and, every callback being run and every
\* fetch ending, a host that is registered when an add succeeds is
\* eventually removed or has its record written by a poll result.
C19_AddSchedulesFullPass ==
  /\ [][(resp'.op = "POST /hosts" /\ resp'.status = 200) =>
          (callbacks' = callbacks + 1 /\ polls' = polls)]_vars
  /\ [][callbacks' < callbacks =>
          /\ callbacks' = callbacks - 1
          /\ polls' = IF stats = <<>> THEN polls
                      ELSE polls (+) SetToBag({[futures |-> dict_keys(stats),
                                                done |-> {}]})]_vars
  /\ \A host \in Hosts :
       (resp = [op |-> "POST /hosts", status |-> 200]
          /\ dict_has(stats, host))
         ~> (\/ ~dict_has(stats, host)
             \/ (resp.op = "update_stats" /\ host \in resp.wrote))

\* both hosts, registered by adds in descending order, have just been
\* written by one pass, and no pass is left
C19_Witness ==
  /\ resp = [op |-> "update_stats", wrote |-> {HttpA, HttpsB}]
  /\ dict_keys(stats) = <<HttpsB, HttpA>>
  /\ Outstanding = 0

====
